---------------------------- MODULE Spec2Model ----------------------------
(***************************************************************************)
(* Console support layer of routersploit (routersploit/utils.py):          *)
(* synchronized colorized output, table and record rendering, command      *)
(* guards and the HTTP wrapper.                                            *)
(*                                                                         *)
(* Text is a sequence of atoms (one-character strings, or one atom for a   *)
(* fixed literal such as the escape introducer).  The output stream is the *)
(* sequence of chunks written by successive print() calls, each tagged     *)
(* with the thread that wrote it.                                          *)
(***************************************************************************)
EXTENDS Integers, Sequences, FiniteSets, TLC

VARIABLES
    stream,          \* sys.stdout: sequence of [t |-> thread, text |-> Text]
    input,           \* arguments of the call under way (sequential specifications)
    result,          \* outcome of the last call: returned value / raised exception
    lock,            \* print_lock: the holding thread, or NoThread
    pc,              \* per thread: position inside the current operation
    todo,            \* per thread: the primitive calls the current operation still makes
    prints,          \* per thread: the print() calls the current __cprint still makes
    failed,          \* per thread: the exception the current __cprint is raising, or NoExc
    ncalls,          \* number of operations started so far
    current_module,  \* shell state read by module_required
    handlerRuns,     \* side effect of the guarded handler: a counter
    cbCalls          \* log of the wrapped function: the arguments it was called with
                     \* (completion callback), the values it returned (guarded handler)

vars == <<stream, input, result, lock, pc, todo, prints, failed, ncalls,
          current_module, handlerRuns, cbCalls>>

----------------------------------------------------------------------------
(* Bounds of the model *)

MaxArgs == 2
MaxCalls == 2
MaxLockCalls == 2
MaxLineLen == 3
MaxSpaceNumber == 2
MaxRows == 2
MaxInvocations == 5

----------------------------------------------------------------------------
(* Python values *)

None == "None"
Absent == "<absent>"
NoExc == "<no exception>"
NoThread == "<no thread>"
MainThread == "main"

\* ''.join / string concatenation of a sequence of texts
RECURSIVE Concat(_)
Concat(texts) ==
    IF texts = <<>> THEN <<>> ELSE Head(texts) \o Concat(Tail(texts))

\* sep.join(texts)
RECURSIVE Join(_, _)
Join(texts, sep) ==
    IF texts = <<>> THEN <<>>
    ELSE IF Len(texts) = 1 THEN texts[1]
    ELSE texts[1] \o sep \o Join(Tail(texts), sep)

\* the text of a one-atom string; the empty string has no atoms
Str(s) == IF s = "" THEN <<>> ELSE <<s>>

\* str() of a non-negative integer, as '{}'.format(n) renders it
Digits == <<"0", "1", "2", "3", "4", "5", "6", "7", "8", "9">>
RECURSIVE IntStr(_)
IntStr(n) ==
    IF n < 10 THEN <<Digits[n + 1]>>
    ELSE IntStr(n \div 10) \o <<Digits[(n % 10) + 1]>>

\* all sequences over S of length at most n
SeqsUpTo(S, n) == UNION { [1..k -> S] : k \in 0..n }

----------------------------------------------------------------------------
(* colors, utils.py:13-18 *)

colors == [c \in {"grey", "red", "green", "yellow", "blue", "magenta", "cyan", "white"} |->
            CASE c = "grey"    -> 30
              [] c = "red"     -> 31
              [] c = "green"   -> 32
              [] c = "yellow"  -> 33
              [] c = "blue"    -> 34
              [] c = "magenta" -> 35
              [] c = "cyan"    -> 36
              [] c = "white"   -> 37]

ESC == "\\033"
ColorStart(color) == <<ESC, "[">> \o IntStr(colors[color]) \o <<"m">>
ColorReset == <<ESC, "[", "0", "m">>

----------------------------------------------------------------------------
(* Keyword arguments: a record over KwNames; Absent marks a keyword the    *)
(* caller did not pass.                                                    *)

KwNames == {"verbose", "color", "sep", "end"}
NoKwargs == [k \in KwNames |-> Absent]
Passed(kw) == {k \in DOMAIN kw : kw[k] # Absent}

\* kwargs.get(key, default)
KwGet(kw, key, default) == IF kw[key] = Absent THEN default ELSE kw[key]

\* Python truth value of the values that occur as keyword arguments
Truthy(v) == v \notin {"False", None, ""}

\* keywords the builtin print() accepts (file is not modelled: one stream)
PrintKeywords == {"sep", "end"}

\* builtin print(*args, sep, end): the text one call writes
PrintText(args, sep, end) == Join(args, Str(sep)) \o Str(end)

\* Outcome of a primitive call: the chunks it writes, whether it takes the
\* lock while writing them, and the exception it raises after them.
Outcome(locked, chunks, exc) ==
    [locked |-> locked, colored |-> FALSE, chunks |-> chunks, exc |-> exc]

\* a colorized write: under the lock, three print() calls (color start,
\* payload, reset and terminator)
ColoredOutcome(start, payload, reset) ==
    [locked |-> TRUE, colored |-> TRUE, chunks |-> <<start, payload, reset>>, exc |-> NoExc]

\* builtin print(*args, **kwargs)
BuiltinPrint(args, kw) ==
    IF Passed(kw) \subseteq PrintKeywords
    THEN Outcome(FALSE, <<PrintText(args, KwGet(kw, "sep", " "), KwGet(kw, "end", "\n"))>>, NoExc)
    ELSE Outcome(FALSE, <<>>, "TypeError")

\* __cprint(*args, **kwargs), utils.py:89-108
__cprint(args, kw) ==
    IF ~Truthy(KwGet(kw, "verbose", "True"))
    THEN Outcome(FALSE, <<>>, NoExc)
    ELSE LET color == KwGet(kw, "color", None)
             sep == KwGet(kw, "sep", " ")
             end == KwGet(kw, "end", "\n")
         IN  IF Truthy(color)
             THEN IF color \in DOMAIN colors
                  THEN ColoredOutcome(PrintText(<<ColorStart(color)>>, sep, ""),
                                      PrintText(args, sep, ""),
                                      PrintText(<<ColorReset>>, sep, end))
                  ELSE Outcome(TRUE, <<>>, "KeyError")
             ELSE LET p == BuiltinPrint(args, kw)
                  IN  Outcome(TRUE, p.chunks, p.exc)

ErrorGlyph == <<ESC, "[", "9", "1", "m", "[", "-", "]", ESC, "[", "0", "m">>
StatusGlyph == <<ESC, "[", "9", "4", "m", "[", "*", "]", ESC, "[", "0", "m">>
SuccessGlyph == <<ESC, "[", "9", "2", "m", "[", "+", "]", ESC, "[", "0", "m">>

\* print_error / print_status / print_success / print_info, utils.py:111-124
print_error(args, kw) == __cprint(<<ErrorGlyph>> \o args, kw)
print_status(args, kw) == __cprint(<<StatusGlyph>> \o args, kw)
print_success(args, kw) == __cprint(<<SuccessGlyph>> \o args, kw)
print_info(args, kw) == __cprint(args, kw)

Entries == {"print_info", "print_error", "print_status", "print_success"}
PrintEntry(entry, args, kw) ==
    CASE entry = "print_error"   -> print_error(args, kw)
      [] entry = "print_status"  -> print_status(args, kw)
      [] entry = "print_success" -> print_success(args, kw)
      [] OTHER                   -> print_info(args, kw)

\* the parts a print_* entry point hands to the writer
EntryParts(entry, args) ==
    CASE entry = "print_error"   -> <<ErrorGlyph>> \o args
      [] entry = "print_status"  -> <<StatusGlyph>> \o args
      [] entry = "print_success" -> <<SuccessGlyph>> \o args
      [] OTHER                   -> args

----------------------------------------------------------------------------
(* print_table, utils.py:143-196 *)

DefaultExtraFill == 5
DefaultHeaderSeparator == "-"
RowsMismatchMessage == <<"Headers and table rows tuples should be the same length.">>
Margin == <<" ", " ", " ">>

\* A cell value: a str (its characters), or a value without len() such as
\* None or an int (text is what str() gives).
StrCell(text) == [type |-> "str", text |-> text]
NoLenCell(text) == [type |-> "nolen", text |-> text]

\* custom_len, utils.py:166-170
custom_len(x) == IF x.type = "str" THEN Len(x.text) ELSE 0

SetMax(S) == CHOOSE m \in S : \A n \in S : n <= m

\* max(first, *rest): with no further argument max() takes its only argument
\* for an iterable, and an int is not one
MaxRaises(first, rest) == rest = <<>>
MaxOf(first, rest) == SetMax({first} \cup {rest[i] : i \in 1..Len(rest)})

Repeat(a, n) == [i \in 1..n |-> a]

\* '{:<{}}'.format(text, width): left-justify, never truncate
LJust(text, width) ==
    IF Len(text) >= width THEN text ELSE text \o Repeat(" ", width - Len(text))

\* column idx over all rows: map(lambda x: custom_len(x[idx]), args)
ColumnLens(rows, idx) == [r \in 1..Len(rows) |-> custom_len(rows[r][idx])]

\* current_line_fill, utils.py:176
LineFill(headers, rows, idx, extra_fill) ==
    MaxOf(Len(headers[idx]), ColumnLens(rows, idx)) + extra_fill

Fill(headers, rows, extra_fill) ==
    [idx \in 1..Len(headers) |-> LineFill(headers, rows, idx, extra_fill)]

HeadersLine(headers, fill) ==
    Margin \o Concat([idx \in 1..Len(headers) |-> LJust(headers[idx], fill[idx])])

HeadersSeparatorLine(headers, fill, header_separator) ==
    Margin \o Concat([idx \in 1..Len(headers) |->
                        LJust(Repeat(header_separator, Len(headers[idx])), fill[idx])])

ContentLine(row, fill) ==
    Margin \o Concat([idx \in 1..Len(row) |-> LJust(row[idx].text, fill[idx])])

\* a bare print(line): the builtin, outside print_lock
BarePrint(line) == BuiltinPrint(<<line>>, NoKwargs)

\* print_table(headers, *rows, extra_fill, header_separator): the primitive
\* calls it makes, in order
print_table(headers, rows, extra_fill, header_separator) ==
    IF \E r \in 1..Len(rows) : Len(rows[r]) # Len(headers)
    THEN <<print_error(<<RowsMismatchMessage>>, NoKwargs)>>
    ELSE IF headers # <<>> /\ MaxRaises(Len(headers[1]), ColumnLens(rows, 1))
    THEN <<Outcome(FALSE, <<>>, "TypeError")>>
    ELSE LET fill == Fill(headers, rows, extra_fill)
         IN  <<BuiltinPrint(<<>>, NoKwargs),
               BarePrint(HeadersLine(headers, fill)),
               BarePrint(HeadersSeparatorLine(headers, fill, header_separator))>>
             \o [r \in 1..Len(rows) |-> BarePrint(ContentLine(rows[r], fill))]
             \o <<BuiltinPrint(<<>>, NoKwargs)>>

----------------------------------------------------------------------------
(* pprint_dict_in_order, utils.py:210-250 *)

LowerCase == <<"a", "b", "c", "d", "e", "f", "g", "h", "i", "j", "k", "l", "m",
               "n", "o", "p", "q", "r", "s", "t", "u", "v", "w", "x", "y", "z">>
UpperCase == <<"A", "B", "C", "D", "E", "F", "G", "H", "I", "J", "K", "L", "M",
               "N", "O", "P", "Q", "R", "S", "T", "U", "V", "W", "X", "Y", "Z">>
Upper(c) == IF \E i \in 1..Len(LowerCase) : LowerCase[i] = c
            THEN UpperCase[CHOOSE i \in 1..Len(LowerCase) : LowerCase[i] = c] ELSE c
Lower(c) == IF \E i \in 1..Len(UpperCase) : UpperCase[i] = c
            THEN LowerCase[CHOOSE i \in 1..Len(UpperCase) : UpperCase[i] = c] ELSE c

\* str.capitalize(): first character upper-cased, the others lower-cased
Capitalize(text) ==
    [i \in 1..Len(text) |-> IF i = 1 THEN Upper(text[i]) ELSE Lower(text[i])]

\* A record value: a str (items are its characters, what iterating it gives)
\* or a list of strs.  Unbound is the closure variable before any assignment.
PyStr(chars) == [type |-> "str", items |-> [i \in 1..Len(chars) |-> <<chars[i]>>]]
PyList(items) == [type |-> "list", items |-> items]
Unbound == [type |-> "unbound", items |-> <<>>]

\* str(value): the characters of a str, the repr of a list of strs
StrOf(v) ==
    IF v.type = "str" THEN Concat(v.items)
    ELSE <<"[">> \o Join([i \in 1..Len(v.items) |-> <<"'">> \o v.items[i] \o <<"'">>],
                         <<",", " ">>) \o <<"]">>

BulletMarker == <<"-", " ">>
NameErrorOutcome == Outcome(FALSE, <<>>, "NameError")

\* "\n{}:".format(title.capitalize())
LabelText(title) == <<"\n">> \o Capitalize(title) \o <<":">>

\* prettyprint(title, body), utils.py:231-237; value is the variable of the
\* enclosing function the body of prettyprint reads
prettyprint(title, body, value) ==
    <<print_info(<<LabelText(title)>>, NoKwargs)>> \o
    (IF body.type # "str"
     THEN IF value = Unbound THEN <<NameErrorOutcome>>
          ELSE [i \in 1..Len(value.items) |->
                  print_info(<<BulletMarker, value.items[i]>>, NoKwargs)]
     ELSE IF value = Unbound THEN <<NameErrorOutcome>>
          ELSE <<print_info(<<StrOf(value)>>, NoKwargs)>>)

InList(list, x) == \E i \in 1..Len(list) : list[i] = x

PopKey_NoRemove(keys, element) == keys

\* keys.pop(keys.index(element)): the list without the first occurrence
PopKey(keys, element) ==
    LET at == CHOOSE i \in 1..Len(keys) : keys[i] = element /\ \A j \in 1..(i - 1) : keys[j] # element
    IN  [i \in 1..(Len(keys) - 1) |-> IF i < at THEN keys[i] ELSE keys[i + 1]]

\* the loop over order, utils.py:240-247: the calls made, the keys left and
\* the last value assigned
RECURSIVE OrderLoop(_, _, _, _)
OrderLoop(dictionary, order, keys, value) ==
    IF order = <<>> THEN [outcomes |-> <<>>, keys |-> keys, value |-> value]
    ELSE LET element == Head(order)
         IN  IF InList(keys, element)
             THEN LET v == dictionary[element]
                      rest == OrderLoop(dictionary, Tail(order), PopKey(keys, element), v)
                  IN  [outcomes |-> prettyprint(element, v, v) \o rest.outcomes,
                       keys |-> rest.keys, value |-> rest.value]
             ELSE OrderLoop(dictionary, Tail(order), keys, value)

\* the loop over the remaining keys, utils.py:249-250
RestLoop(dictionary, keys, value) ==
    Concat([i \in 1..Len(keys) |-> prettyprint(keys[i], dictionary[keys[i]], value)])

\* pprint_dict_in_order(dictionary, order); keys is the list dictionary.keys()
\* returned, in the order the mapping iterates
pprint_dict_in_order(dictionary, order, keys) ==
    LET o == OrderLoop(dictionary, order, keys, Unbound)
    IN  o.outcomes \o RestLoop(dictionary, o.keys, o.value)

----------------------------------------------------------------------------
(* module_required, utils.py:41-58 *)

ActivateModuleMessage == <<"You have to activate any module with 'use' command.">>

module_required_NoReturn(module) ==
    IF ~Truthy(module)
    THEN [run |-> TRUE, outcomes |-> <<print_error(<<ActivateModuleMessage>>, NoKwargs)>>]
    ELSE [run |-> TRUE, outcomes |-> <<>>]

\* wrapper(self, ...), utils.py:48-52: whether the handler is called, and
\* the calls made instead when it is not
module_required(module) ==
    IF ~Truthy(module)
    THEN [run |-> FALSE, outcomes |-> <<print_error(<<ActivateModuleMessage>>, NoKwargs)>>]
    ELSE [run |-> TRUE, outcomes |-> <<>>]

----------------------------------------------------------------------------
(* stop_after, utils.py:61-86 *)

\* line.split(' ', maxsplit): at most maxsplit splits, leftmost first; a
\* negative maxsplit does not limit them
RECURSIVE Split(_, _)
Split(line, maxsplit) ==
    IF maxsplit = 0 \/ ~InList(line, " ") THEN <<line>>
    ELSE LET at == CHOOSE i \in 1..Len(line) :
                     line[i] = " " /\ \A j \in 1..(i - 1) : line[j] # " "
         IN  <<SubSeq(line, 1, at - 1)>> \o Split(SubSeq(line, at + 1, Len(line)), maxsplit - 1)

IndexErrorMessage == <<"tuple index out of range">>

stop_after_OffByOne(space_number, args) ==
    IF Len(args) < 2
    THEN [stop |-> FALSE, outcomes |-> <<BarePrint(IndexErrorMessage)>>]
    ELSE [stop |-> Len(Split(args[2], space_number)) = space_number,
          outcomes |-> <<>>]

\* _wrapper(self, *args), utils.py:78-84: args[1] is the line; stop tells
\* whether [] is returned without calling the wrapped function, outcomes are
\* the calls made while inspecting the line
stop_after(space_number, args) ==
    IF Len(args) < 2
    THEN [stop |-> FALSE, outcomes |-> <<BarePrint(IndexErrorMessage)>>]
    ELSE [stop |-> Len(Split(args[2], space_number)) = space_number + 1,
          outcomes |-> <<>>]

----------------------------------------------------------------------------
(* http_request, utils.py:261-274 *)

LowerText_Identity(text) == text

\* method.lower()
LowerText(text) == [i \in 1..Len(text) |-> Lower(text[i])]

\* the functions of the requests module that getattr can find by verb name
RequestsVerbs == { <<"g", "e", "t">>, <<"p", "o", "s", "t">>, <<"p", "u", "t">>,
                   <<"h", "e", "a", "d">>, <<"d", "e", "l", "e", "t", "e">>,
                   <<"p", "a", "t", "c", "h">>,
                   <<"o", "p", "t", "i", "o", "n", "s">> }

\* the classes an exception is an instance of
ExceptionClasses(exc) ==
    CASE exc = "MissingSchema"  -> {"MissingSchema", "RequestException"}
      [] exc = "InvalidSchema"  -> {"InvalidSchema", "RequestException"}
      [] exc = "InvalidURL"     -> {"InvalidURL", "RequestException"}
      [] exc = "ConnectionError" -> {"ConnectionError", "RequestException"}
      [] exc = "SSLError"       -> {"SSLError", "ConnectionError", "RequestException"}
      [] exc = "ConnectTimeout" -> {"ConnectTimeout", "ConnectionError", "Timeout",
                                    "RequestException"}
      [] exc = "ReadTimeout"    -> {"ReadTimeout", "Timeout", "RequestException"}
      [] exc = "TooManyRedirects" -> {"TooManyRedirects", "RequestException"}
      [] OTHER                  -> {exc}
IsInstance(exc, classes) == ExceptionClasses(exc) \cap classes # {}

\* str(error)
ErrorMessage(exc) == <<"message of ", exc>>

Response == "Response"

\* what the call getattr(requests, method.lower())(url) does: the attribute
\* lookup fails for a name requests does not have, else the call returns a
\* response or raises (outcome)
RequestsCall(method, outcome) ==
    IF LowerText(method) \notin RequestsVerbs THEN "AttributeError" ELSE outcome

\* http_request(method, url): the value returned, the exception raised and
\* the calls made
http_request(method, url, outcome) ==
    LET got == RequestsCall(method, outcome)
    IN  IF got = Response
        THEN [ret |-> Response, exc |-> NoExc, outcomes |-> <<>>]
        ELSE IF IsInstance(got, {"MissingSchema", "InvalidSchema"})
        THEN [ret |-> None, exc |-> NoExc,
              outcomes |-> <<print_error(<<<<"Invalid URL format: ">> \o url>>, NoKwargs)>>]
        ELSE IF IsInstance(got, {"ConnectionError"})
        THEN [ret |-> None, exc |-> NoExc,
              outcomes |-> <<print_error(<<<<"Connection error: ">> \o url>>, NoKwargs)>>]
        ELSE IF IsInstance(got, {"RequestException"})
        THEN [ret |-> None, exc |-> NoExc,
              outcomes |-> <<print_error(<<ErrorMessage(got)>>, NoKwargs)>>]
        ELSE [ret |-> None, exc |-> got, outcomes |-> <<>>]

----------------------------------------------------------------------------
(* Sequential execution of a list of primitive outcomes by one thread: the *)
(* chunks written until the first exception, and that exception.           *)

Chunk(t, text) == [t |-> t, text |-> text]

RECURSIVE RunAll(_)
RunAll(outcomes) ==
    IF outcomes = <<>> THEN [chunks |-> <<>>, exc |-> NoExc]
    ELSE LET o == Head(outcomes)
         IN  IF o.exc # NoExc THEN [chunks |-> o.chunks, exc |-> o.exc]
             ELSE LET r == RunAll(Tail(outcomes))
                  IN  [chunks |-> o.chunks \o r.chunks, exc |-> r.exc]

Tagged(t, chunks) == [i \in 1..Len(chunks) |-> Chunk(t, chunks[i])]
Texts(s) == [i \in 1..Len(s) |-> s[i].text]

NoInput == [op |-> "none"]
NoResult == [done |-> FALSE, ret |-> None, exc |-> NoExc]
Returned(v) == [done |-> TRUE, ret |-> v, exc |-> NoExc]
Raised(e) == [done |-> TRUE, ret |-> None, exc |-> e]

Threads == {"t1", "t2"}

\* the parts of the state each specification starts from
InitWriter ==
    /\ lock = NoThread
    /\ pc = [t \in Threads |-> "idle"]
    /\ todo = [t \in Threads |-> <<>>]
    /\ prints = [t \in Threads |-> <<>>]
    /\ failed = [t \in Threads |-> NoExc]
    /\ ncalls = 0
InitShell ==
    /\ current_module = None
    /\ handlerRuns = 0
    /\ cbCalls = <<>>
writerVars == <<lock, pc, todo, prints, failed, ncalls>>
shellVars == <<current_module, handlerRuns, cbCalls>>

----------------------------------------------------------------------------
(* Specification SpecPrint: one call of a print_* entry point *)

Msg1 == <<"a">>
Msg2 == <<"b", "c">>
ArgLists == SeqsUpTo({Msg1, Msg2}, MaxArgs)
Kwargs == [verbose : {Absent, "True", "False"},
           color : {Absent, None, "red", "cyan", "pink"},
           sep : {Absent, ","},
           end : {Absent, ""}]
PrintInputs == [op : {"print"}, entry : Entries, args : ArgLists, kw : Kwargs]

InitPrint ==
    /\ stream = <<>>
    /\ input \in PrintInputs
    /\ result = NoResult
    /\ InitWriter /\ InitShell

DoPrint ==
    /\ input.op = "print"
    /\ ~result.done
    /\ LET o == PrintEntry(input.entry, input.args, input.kw)
       IN  /\ stream' = stream \o Tagged(MainThread, o.chunks)
           /\ result' = IF o.exc = NoExc THEN Returned(None) ELSE Raised(o.exc)
    /\ UNCHANGED <<input, writerVars, shellVars>>

SpecPrint == InitPrint /\ [][DoPrint]_vars

\* C6: a write with no color reaches the stream as the parts joined by the
\* separator followed by the terminator whenever verbose is true (left at its
\* default or passed by the caller), writes nothing when verbose is false,
\* and never raises.
C6_UncoloredWrite ==
    (input.op = "print" /\ result.done /\ input.kw.color = Absent) =>
        /\ result.exc = NoExc
        /\ IF input.kw.verbose \in {Absent, "True"}
           THEN Texts(stream) =
                  << Join(EntryParts(input.entry, input.args),
                          Str(KwGet(input.kw, "sep", " ")))
                     \o Str(KwGet(input.kw, "end", "\n")) >>
           ELSE stream = <<>>

----------------------------------------------------------------------------
(* Specification SpecTable: one call of print_table *)

HeaderTexts == {<<"N">>, <<"I", "d">>}
Cells == {StrCell(<<"x">>), StrCell(<<"a", "b", "c">>), NoLenCell(<<"N", "o", "n", "e">>)}
MaxHeaders == 2
TableInputs ==
    [op : {"print_table"},
     headers : SeqsUpTo(HeaderTexts, MaxHeaders),
     rows : SeqsUpTo(SeqsUpTo(Cells, MaxHeaders), MaxRows),
     extra_fill : {DefaultExtraFill, 1},
     header_separator : {DefaultHeaderSeparator}]

InitTable ==
    /\ stream = <<>>
    /\ input \in TableInputs
    /\ result = NoResult
    /\ InitWriter /\ InitShell

\* run the primitive calls of an operation one after the other on the main thread
RunSequential(outcomes) ==
    LET r == RunAll(outcomes)
    IN  /\ stream' = stream \o Tagged(MainThread, r.chunks)
        /\ result' = IF r.exc = NoExc THEN Returned(None) ELSE Raised(r.exc)

DoPrintTable ==
    /\ input.op = "print_table"
    /\ ~result.done
    /\ RunSequential(print_table(input.headers, input.rows, input.extra_fill,
                                input.header_separator))
    /\ UNCHANGED <<input, writerVars, shellVars>>

SpecTable == InitTable /\ [][DoPrintTable]_vars

\* the width the claim gives column idx: max(len(header), max over the rows of
\* the displayed length of the cell, 0 for a cell without length) + extra_fill
ClaimedWidth(headers, rows, idx, extra_fill) ==
    SetMax({Len(headers[idx])} \cup {custom_len(rows[r][idx]) : r \in 1..Len(rows)})
    + extra_fill

ClaimedTable(headers, rows, extra_fill, header_separator) ==
    LET w == [idx \in 1..Len(headers) |-> ClaimedWidth(headers, rows, idx, extra_fill)]
        nl(line) == line \o <<"\n">>
    IN  << nl(<<>>),
           nl(Margin \o Concat([i \in 1..Len(headers) |-> LJust(headers[i], w[i])])),
           nl(Margin \o Concat([i \in 1..Len(headers) |->
                   LJust(Repeat(header_separator, Len(headers[i])), w[i])])) >>
        \o [r \in 1..Len(rows) |->
               nl(Margin \o Concat([i \in 1..Len(headers) |-> LJust(rows[r][i].text, w[i])]))]
        \o << nl(<<>>) >>

\* C3: for H >= 1 headers and R >= 0 rows all of length H, print_table
\* completes without raising and every line is laid out with the column
\* widths max(len(header), max displayed length) + extra_fill.
C3_TableWidths ==
    (/\ input.op = "print_table" /\ result.done
     /\ Len(input.headers) >= 1
     /\ \A r \in 1..Len(input.rows) : Len(input.rows[r]) = Len(input.headers)) =>
        /\ result.exc = NoExc
        /\ Texts(stream) = ClaimedTable(input.headers, input.rows, input.extra_fill,
                                        input.header_separator)

----------------------------------------------------------------------------
(* Specification SpecDict: one call of pprint_dict_in_order *)

MaxOrderLen == 2
RecordKeys == {<<"k">>, <<"n", "o">>, <<"S", "x">>}
RecordValues == {PyStr(<<"v">>), PyStr(<<>>), PyList(<< <<"x">>, <<"y", "z">> >>),
                 PyList(<< <<"w">> >>)}
Records == UNION { [D -> RecordValues] : D \in SUBSET RecordKeys }
Orderings(D) ==
    {s \in [1..Cardinality(D) -> D] : \A i, j \in 1..Cardinality(D) : s[i] = s[j] => i = j}

InitDict ==
    /\ stream = <<>>
    /\ \E d \in Records, order \in SeqsUpTo(RecordKeys, MaxOrderLen) :
         \E keys \in Orderings(DOMAIN d) :
            input = [op |-> "pprint_dict_in_order", dictionary |-> d,
                     order |-> order, keys |-> keys]
    /\ result = NoResult
    /\ InitWriter /\ InitShell

DoPprintDict ==
    /\ input.op = "pprint_dict_in_order"
    /\ ~result.done
    /\ RunSequential(pprint_dict_in_order(input.dictionary, input.order, input.keys))
    /\ UNCHANGED <<input, writerVars, shellVars>>

SpecDict == InitDict /\ [][DoPprintDict]_vars

\* the lines the claim puts under a key's label: the value on one line if it
\* is a text scalar, else one '- '-prefixed line per element
ClaimedRendering(v) ==
    IF v.type = "str" THEN <<PrintText(<<StrOf(v)>>, " ", "\n")>>
    ELSE [i \in 1..Len(v.items) |-> PrintText(<<BulletMarker, v.items[i]>>, " ", "\n")]

\* the keys in the sequence they are printed: those of order that are in the
\* record (once each), then the remaining ones as the mapping iterates
RECURSIVE OrderedKeys(_, _)
OrderedKeys(order, keys) ==
    IF order = <<>> THEN <<>>
    ELSE IF InList(keys, Head(order))
         THEN <<Head(order)>> \o OrderedKeys(Tail(order), PopKey(keys, Head(order)))
         ELSE OrderedKeys(Tail(order), keys)
RECURSIVE Without(_, _)
Without(keys, gone) ==
    IF keys = <<>> THEN <<>>
    ELSE IF InList(gone, Head(keys)) THEN Without(Tail(keys), gone)
         ELSE <<Head(keys)>> \o Without(Tail(keys), gone)
PrintedKeys(order, keys) ==
    OrderedKeys(order, keys) \o Without(keys, OrderedKeys(order, keys))

ClaimedRecord(d, order, keys) ==
    LET ks == PrintedKeys(order, keys)
    IN  Concat([i \in 1..Len(ks) |->
                  <<PrintText(<<LabelText(ks[i])>>, " ", "\n")>> \o ClaimedRendering(d[ks[i]])])

\* C4: under every key's label, whether the key is listed in order or is one
\* of the remaining keys, the lines printed are the rendering of that key's
\* own value, and the call does not raise.
C4_OwnValueUnderLabel ==
    (input.op = "pprint_dict_in_order" /\ result.done) =>
        /\ result.exc = NoExc
        /\ Texts(stream) = ClaimedRecord(input.dictionary, input.order, input.keys)

\* a label line: "\n" + capitalized key + ":" + terminator
IsLabel(text) == Len(text) >= 3 /\ text[1] = "\n" /\ text[Len(text) - 1] = ":"
Labels(texts) == SelectSeq(texts, IsLabel)
LabelLine(key) == PrintText(<<LabelText(key)>>, " ", "\n")
Count(seq, x) == Cardinality({i \in 1..Len(seq) : seq[i] = x})

\* order is a non-empty subsequence of the record's keys
OrderOfKeys(d, order) ==
    /\ order # <<>>
    /\ \A i \in 1..Len(order) : order[i] \in DOMAIN d
    /\ \A i, j \in 1..Len(order) : order[i] = order[j] => i = j

\* C9: for a non-empty order that is a subsequence of the record's keys, the
\* labels of the keys of order are printed in the sequence order gives, all
\* before the label of any remaining key, and every key has exactly one label.
C9_LabelsInOrder ==
    (/\ input.op = "pprint_dict_in_order" /\ result.done
     /\ OrderOfKeys(input.dictionary, input.order)) =>
        LET labels == Labels(Texts(stream))
            order == input.order
            rest == Without(input.keys, order)
        IN  /\ Len(labels) = Cardinality(DOMAIN input.dictionary)
            /\ \A i \in 1..Len(order) : labels[i] = LabelLine(order[i])
            /\ \A i \in 1..Len(rest) :
                  Count(SubSeq(labels, Len(order) + 1, Len(labels)), LabelLine(rest[i]))
                    = Count([j \in 1..Len(rest) |-> LabelLine(rest[j])], LabelLine(rest[i]))

C9_Witness ==
    /\ input.op = "pprint_dict_in_order" /\ result.done
    /\ Len(input.order) = 2
    /\ OrderOfKeys(input.dictionary, input.order)
    /\ Cardinality(DOMAIN input.dictionary) = 3
    /\ input.keys[1] # input.order[1]
    /\ Len(Labels(Texts(stream))) = 3

----------------------------------------------------------------------------
(* Specification SpecGuard: a shell whose command handler is wrapped by    *)
(* module_required; the dispatcher activates and leaves modules.           *)

Modules == {"exploits/x", "scanners/y"}
HandlerResults == {"done", "failed"}

InitGuard ==
    /\ stream = <<>>
    /\ input = NoInput
    /\ result = NoResult
    /\ InitWriter /\ InitShell

\* the dispatcher's 'use' command
Use ==
    /\ \E m \in Modules : current_module' = m /\ current_module # m
    /\ UNCHANGED <<stream, input, result, writerVars, handlerRuns, cbCalls>>

\* the dispatcher's 'back' command
Back ==
    /\ current_module # None
    /\ current_module' = None
    /\ UNCHANGED <<stream, input, result, writerVars, handlerRuns, cbCalls>>

\* a call of the wrapped handler; the handler body counts its runs, logs
\* the value r it returns in cbCalls and returns it
RunGuarded ==
    /\ ncalls < MaxInvocations
    /\ ncalls' = ncalls + 1
    /\ input' = [op |-> "run", n |-> ncalls + 1]
    /\ LET g == module_required(current_module)
       IN  /\ stream' = stream \o Tagged(MainThread, RunAll(g.outcomes).chunks)
           /\ IF g.run
              THEN \E r \in HandlerResults :
                      /\ handlerRuns' = handlerRuns + 1
                      /\ cbCalls' = Append(cbCalls, r)
                      /\ result' = Returned(r)
              ELSE /\ handlerRuns' = handlerRuns
                   /\ cbCalls' = cbCalls
                   /\ result' = Returned(None)
    /\ UNCHANGED <<lock, pc, todo, prints, failed, current_module>>

SpecGuard == InitGuard /\ [][Use \/ Back \/ RunGuarded]_vars

ActivateModuleLine ==
    PrintText(<<ErrorGlyph, ActivateModuleMessage>>, " ", "\n")

\* C8: every invocation made while no module is active emits exactly one
\* error line, returns None and leaves the handler's side effects and the
\* shell state untouched; every invocation made while a module is active
\* runs the handler exactly once, returns its result and emits nothing.
C8_ActivationGuard ==
    [][(input'.op = "run" /\ ncalls' = ncalls + 1) =>
         IF current_module = None
         THEN /\ Texts(stream') = Texts(stream) \o <<ActivateModuleLine>>
              /\ result' = Returned(None)
              /\ handlerRuns' = handlerRuns /\ cbCalls' = cbCalls
              /\ current_module' = current_module
         ELSE /\ handlerRuns' = handlerRuns + 1
              /\ Len(cbCalls') = Len(cbCalls) + 1
              /\ result' = Returned(cbCalls'[Len(cbCalls')])
              /\ stream' = stream
              /\ current_module' = current_module]_vars

C8_Witness ==
    /\ input.op = "run" /\ ncalls = 3
    /\ handlerRuns = 1
    /\ Len(stream) = 2
    /\ current_module = None
    /\ result = Returned(None)

----------------------------------------------------------------------------
(* Specification SpecComplete: one call of a completion callback wrapped   *)
(* by stop_after(space_number)                                             *)

UseExploitsLine == <<"u", "s", "e", " ", "e", "x", "p", "l", "o", "i", "t", "s", "/", "x", " ">>
UseLine == <<"u", "s", "e", " ">>
Lines == SeqsUpTo({" ", "u"}, MaxLineLen) \cup {UseExploitsLine, UseLine}
CompletionText == <<"u">>
Candidates == << <<"u", "s", "e">> >>

InitComplete ==
    /\ stream = <<>>
    /\ \E n \in (-1)..MaxSpaceNumber, args \in {<<CompletionText>>} \cup {<<CompletionText, l>> : l \in Lines} :
          input = [op |-> "complete", space_number |-> n, args |-> args]
    /\ result = NoResult
    /\ InitWriter /\ InitShell

\* a call of the wrapper; the wrapped callback records its arguments and
\* returns Candidates
DoComplete ==
    /\ input.op = "complete"
    /\ ~result.done
    /\ LET w == stop_after(input.space_number, input.args)
       IN  /\ stream' = stream \o Tagged(MainThread, RunAll(w.outcomes).chunks)
           /\ IF w.stop
              THEN /\ result' = Returned(<<>>)
                   /\ cbCalls' = cbCalls
              ELSE /\ result' = Returned(Candidates)
                   /\ cbCalls' = Append(cbCalls, input.args)
    /\ UNCHANGED <<input, writerVars, current_module, handlerRuns>>

SpecComplete == InitComplete /\ [][DoComplete]_vars

CountSpaces(line) == Cardinality({i \in 1..Len(line) : line[i] = " "})

\* C7: for space_number >= 0 the wrapper returns [] without calling the
\* wrapped callback exactly when the line holds at least space_number
\* spaces; otherwise it calls the wrapped callback once with the unchanged
\* arguments and returns its result.  "use exploits/x " stops at 2 spaces,
\* "use " delegates.
C7_StopAfter ==
    (/\ input.op = "complete" /\ result.done
     /\ input.space_number >= 0 /\ Len(input.args) >= 2) =>
        /\ result.exc = NoExc
        /\ IF CountSpaces(input.args[2]) >= input.space_number
           THEN result.ret = <<>> /\ cbCalls = <<>>
           ELSE result.ret = Candidates /\ cbCalls = <<input.args>>
        /\ (input.args[2] = UseExploitsLine /\ input.space_number = 2)
              => (result.ret = <<>> /\ cbCalls = <<>>)
        /\ (input.args[2] = UseLine /\ input.space_number = 2)
              => (result.ret = Candidates /\ cbCalls = <<input.args>>)

C7_Witness ==
    /\ input.op = "complete" /\ result.done
    /\ input.space_number = 2
    /\ input.args = <<CompletionText, UseExploitsLine>>
    /\ result.ret = <<>>
    /\ cbCalls = <<>>

----------------------------------------------------------------------------
(* Specification SpecHttp: one call of http_request *)

Methods == { <<"G", "E", "T">>, <<"g", "e", "t">>, <<"P", "o", "s", "t">>,
             <<"h", "e", "a", "d">>, <<"O", "P", "T", "I", "O", "N", "S">>,
             <<"f", "r", "o", "b">> }
\* the methods that name a function of requests when case is ignored
VerbMethods == Methods \ { <<"f", "r", "o", "b">> }
NoSchemeUrl == <<"1", "0", ".", "0", ".", "0", ".", "1">>
FtpUrl == <<"f", "t", "p", ":", "/", "/", "h">>
Urls == { NoSchemeUrl, FtpUrl,
          <<"h", "t", "t", "p", ":", "/", "/", "h">>,
          <<"h", "t", "t", "p", "s", ":", "/", "/", "h">> }
\* what requests can do with a URL: no scheme, a scheme without connection
\* adapter, or an http(s) URL that is fetched
HttpOutcomes(url) ==
    IF url = NoSchemeUrl THEN {"MissingSchema"}
    ELSE IF url = FtpUrl THEN {"InvalidSchema"}
    ELSE {Response, "InvalidURL", "ConnectionError", "SSLError", "ConnectTimeout",
          "ReadTimeout", "TooManyRedirects", "ValueError"}

InitHttp ==
    /\ stream = <<>>
    /\ \E m \in Methods, u \in Urls :
         \E o \in HttpOutcomes(u) :
            input = [op |-> "http_request", method |-> m, url |-> u, outcome |-> o]
    /\ result = NoResult
    /\ InitWriter /\ InitShell

DoHttpRequest ==
    /\ input.op = "http_request"
    /\ ~result.done
    /\ LET h == http_request(input.method, input.url, input.outcome)
           r == RunAll(h.outcomes)
       IN  /\ stream' = stream \o Tagged(MainThread, r.chunks)
           /\ result' = IF h.exc # NoExc THEN Raised(h.exc)
                        ELSE IF r.exc # NoExc THEN Raised(r.exc)
                        ELSE Returned(h.ret)
    /\ UNCHANGED <<input, writerVars, shellVars>>

SpecHttp == InitHttp /\ [][DoHttpRequest]_vars

ErrorLine(message) == PrintText(<<ErrorGlyph, message>>, " ", "\n")

\* C5 (as stated): for every method string and URL http_request does not
\* raise: it returns the response, or emits exactly one error line (Invalid
\* URL format / Connection error / the error's message) and returns None.
C5_NeverRaises ==
    (input.op = "http_request" /\ result.done) =>
        /\ result.exc = NoExc
        /\ \/ result.ret = Response /\ stream = <<>>
           \/ /\ result.ret = None
              /\ \/ Texts(stream) = <<ErrorLine(<<"Invalid URL format: ">> \o input.url)>>
                 \/ Texts(stream) = <<ErrorLine(<<"Connection error: ">> \o input.url)>>
                 \/ Texts(stream) = <<ErrorLine(ErrorMessage(input.outcome))>>

\* C5 (amended): when the method names a function of requests, case
\* ignored, http_request returns the response unmodified, or recovers a
\* requests.RequestException: exactly one error line (Invalid URL format for
\* a missing or unsupported scheme, Connection error for a connection
\* failure, the error's message otherwise) and None returned.  An exception
\* that is no RequestException, such as the AttributeError of a method that
\* names no function of requests, reaches the caller and nothing is printed.
C5_RequestFailuresRecovered ==
    (input.op = "http_request" /\ result.done) =>
        LET o == input.outcome
            verb == input.method \in VerbMethods
            line(prefix) == <<ErrorLine(prefix \o input.url)>>
        IN  IF ~verb
            THEN result = Raised("AttributeError") /\ stream = <<>>
            ELSE IF o = Response
            THEN result = Returned(Response) /\ stream = <<>>
            ELSE IF o \in {"MissingSchema", "InvalidSchema"}
            THEN result = Returned(None) /\ Texts(stream) = line(<<"Invalid URL format: ">>)
            ELSE IF o \in {"ConnectionError", "SSLError", "ConnectTimeout"}
            THEN result = Returned(None) /\ Texts(stream) = line(<<"Connection error: ">>)
            ELSE IF o \in {"InvalidURL", "ReadTimeout", "TooManyRedirects"}
            THEN result = Returned(None) /\ Texts(stream) = <<ErrorLine(ErrorMessage(o))>>
            ELSE result = Raised(o) /\ stream = <<>>

C5_Witness ==
    /\ input.op = "http_request" /\ result.done
    /\ input.method = <<"G", "E", "T">>
    /\ input.outcome = "ConnectTimeout"
    /\ result = Returned(None)
    /\ Len(stream) = 1

----------------------------------------------------------------------------
(* Specification SpecWriter: threads that call the print_* entry points,   *)
(* print_table and pprint_dict_in_order concurrently.  One step is one     *)
(* print() call, or taking or leaving print_lock.  In this specification   *)
(* input and result hold one entry per thread.                             *)

WriterKwargs == { NoKwargs,
                  [NoKwargs EXCEPT !.color = "red"],
                  [NoKwargs EXCEPT !.color = "pink"],
                  [NoKwargs EXCEPT !.verbose = "True"],
                  [NoKwargs EXCEPT !.verbose = "False"] }
PrintOp(kw) == [op |-> "print", entry |-> "print_status", args |-> <<Msg1>>, kw |-> kw]
RecordOp == [op |-> "pprint_dict_in_order", dictionary |-> [k \in {<<"k">>} |-> PyStr(<<"v">>)],
             order |-> << <<"k">> >>]
TableOp == [op |-> "print_table", headers |-> << <<"N">> >>, rows |-> << <<StrCell(<<"x">>)>> >>]
WriterOps == {PrintOp(kw) : kw \in WriterKwargs} \cup {RecordOp, TableOp}
\* operations that take print_lock for every write they make
LockedOps == {PrintOp(kw) : kw \in WriterKwargs \ {[NoKwargs EXCEPT !.verbose = "False"]}}
             \cup {RecordOp}

\* the primitive calls an operation makes
OpOutcomes(op) ==
    CASE op.op = "print" -> <<PrintEntry(op.entry, op.args, op.kw)>>
      [] op.op = "print_table" ->
            print_table(op.headers, op.rows, DefaultExtraFill, DefaultHeaderSeparator)
      [] op.op = "pprint_dict_in_order" ->
            pprint_dict_in_order(op.dictionary, op.order, op.order)

\* the print() calls of a primitive call, each with the part of a colorized
\* block it writes
ColoredParts == <<"start", "payload", "reset">>
Parts(o) == [i \in 1..Len(o.chunks) |->
               [part |-> IF o.colored THEN ColoredParts[i] ELSE "plain", text |-> o.chunks[i]]]

InitSpecWriter ==
    /\ stream = <<>>
    /\ input = [t \in Threads |-> NoInput]
    /\ result = [t \in Threads |-> NoResult]
    /\ InitWriter /\ InitShell

CanAcquire_NoExclusion(t) == TRUE

\* threading.Lock.acquire: blocks while another thread holds the lock
CanAcquire(t) == lock = NoThread

LockAfterExit_HeldOnRaise(t) == IF failed[t] # NoExc THEN t ELSE NoThread

\* the with statement's exit, utils.py:98: the lock is released whether the
\* block returns or raises
LockAfterExit(t) == NoThread

\* thread t goes on with the primitive calls outs of its operation; with
\* none left the operation returns
Proceed(t, outs) ==
    IF outs = <<>>
    THEN /\ pc' = [pc EXCEPT ![t] = "idle"]
         /\ todo' = [todo EXCEPT ![t] = <<>>]
         /\ prints' = [prints EXCEPT ![t] = <<>>]
         /\ failed' = [failed EXCEPT ![t] = NoExc]
         /\ result' = [result EXCEPT ![t] = Returned(None)]
    ELSE /\ pc' = [pc EXCEPT ![t] = IF Head(outs).locked THEN "acquire" ELSE "write"]
         /\ todo' = [todo EXCEPT ![t] = Tail(outs)]
         /\ prints' = [prints EXCEPT ![t] = Parts(Head(outs))]
         /\ failed' = [failed EXCEPT ![t] = Head(outs).exc]
         /\ result' = [result EXCEPT ![t] = NoResult]

\* thread t calls one of the operations ops, while fewer than max calls
\* have been made
BeginOp(t, ops, max) ==
    /\ pc[t] = "idle"
    /\ ncalls < max
    /\ ncalls' = ncalls + 1
    /\ \E op \in ops :
          /\ input' = [input EXCEPT ![t] = op]
          /\ Proceed(t, OpOutcomes(op))
    /\ UNCHANGED <<stream, lock, shellVars>>

Begin(t) == BeginOp(t, WriterOps, MaxCalls)
BeginLocked(t) == BeginOp(t, LockedOps, MaxLockCalls)

\* with print_lock: enter
Acquire(t) ==
    /\ pc[t] = "acquire"
    /\ CanAcquire(t)
    /\ lock' = t
    /\ pc' = [pc EXCEPT ![t] = "write"]
    /\ UNCHANGED <<stream, input, result, todo, prints, failed, ncalls, shellVars>>

\* one print() call reaches the stream
Write(t) ==
    /\ pc[t] = "write"
    /\ prints[t] # <<>>
    /\ stream' = Append(stream, [t |-> t, op |-> input[t].op, part |-> Head(prints[t]).part,
                                 text |-> Head(prints[t]).text, held |-> (lock = t)])
    /\ prints' = [prints EXCEPT ![t] = Tail(prints[t])]
    /\ UNCHANGED <<input, result, lock, pc, todo, failed, ncalls, shellVars>>

\* the primitive call ends: the lock it took is released; an exception ends
\* the whole operation, else the operation goes on
Exit(t) ==
    /\ pc[t] = "write"
    /\ prints[t] = <<>>
    /\ lock' = IF lock = t THEN LockAfterExit(t) ELSE lock
    /\ IF failed[t] # NoExc
       THEN /\ pc' = [pc EXCEPT ![t] = "idle"]
            /\ todo' = [todo EXCEPT ![t] = <<>>]
            /\ failed' = [failed EXCEPT ![t] = NoExc]
            /\ result' = [result EXCEPT ![t] = Raised(failed[t])]
            /\ UNCHANGED prints
       ELSE Proceed(t, todo[t])
    /\ UNCHANGED <<stream, input, ncalls, shellVars>>

ThreadNext(t) == Begin(t) \/ Acquire(t) \/ Write(t) \/ Exit(t)
NextWriter == \E t \in Threads : ThreadNext(t)

SpecWriter == InitSpecWriter /\ [][NextWriter]_vars

\* Specification FairSpecLock: the threads call only operations that write
\* through __cprint, and every thread that can take a step eventually takes
\* one (the scheduler runs every runnable thread).
LockNext(t) == BeginLocked(t) \/ Acquire(t) \/ Write(t) \/ Exit(t)
NextLock == \E t \in Threads : LockNext(t)
FairSpecLock == InitSpecWriter /\ [][NextLock]_vars /\ \A t \in Threads : WF_vars(LockNext(t))

InColoredWrite(c) == c.part \in {"start", "payload", "reset"}

\* stream[i] is a color start whose reset has not been written before index j
OpenAt(i, j) ==
    /\ stream[i].part = "start"
    /\ \A k \in (i + 1)..(j - 1) : ~(stream[k].t = stream[i].t /\ stream[k].part = "reset")

\* the chunks of thread t's colorized writes, in stream order
ColoredBy(t) == SelectSeq(stream, LAMBDA c : c.t = t /\ InColoredWrite(c))

\* C1: in every interleaving of colorized writes a thread's color start,
\* payload and reset follow each other in this order, and between a thread's
\* color start and its reset nothing written by another thread's colorized
\* write appears.
C1_ColoredBlocks ==
    /\ \A t \in Threads :
          \A i \in 1..Len(ColoredBy(t)) : ColoredBy(t)[i].part = ColoredParts[((i - 1) % 3) + 1]
    /\ \A i, j \in 1..Len(stream) :
          (i < j /\ OpenAt(i, j) /\ stream[j].t # stream[i].t) => ~InColoredWrite(stream[j])

C1_Witness ==
    \E t, u \in Threads :
        /\ t # u
        /\ lock = t /\ pc[u] = "acquire"
        /\ prints[u] # <<>> /\ Head(prints[u]).part = "start"
        /\ stream # <<>>
        /\ stream[Len(stream)].t = t /\ stream[Len(stream)].part = "payload"

\* C2: every line print_table and pprint_dict_in_order write is written
\* with print_lock held, and no such line appears between another thread's
\* color start and its reset.
C2_RenderersHoldLock ==
    \A j \in 1..Len(stream) :
        stream[j].op \in {"print_table", "pprint_dict_in_order"} =>
            /\ stream[j].held
            /\ \A i \in 1..(j - 1) : ~(OpenAt(i, j) /\ stream[i].t # stream[j].t)

\* C10: print_lock is held only by a thread inside a write call; a thread
\* waiting for the lock eventually gets it, also after another thread's
\* write failed, and a thread holding it eventually releases it.
C10_LockReleased ==
    /\ [](\A t \in Threads : lock = t => pc[t] = "write")
    /\ [](\A t \in Threads : result[t].done => lock # t)
    /\ \A t \in Threads : (pc[t] = "acquire") ~> (lock = t)
    /\ \A t \in Threads : (lock = t) ~> (lock # t)

\* a write is failing on an unknown color inside the lock while the other
\* thread waits for the lock
C10_Witness ==
    \E t, u \in Threads :
        /\ t # u
        /\ lock = t /\ failed[t] = "KeyError"
        /\ pc[u] = "acquire"

=============================================================================
